---- MODULE Spec2Model ----
(***************************************************************************)
(* Model of spotify_compare.py: configuration validation, the two catalog  *)
(* readers, the fuzzy comparison (rapidfuzz extractOne with                *)
(* token_sort_ratio) and the creation of the "Missing Songs" playlist.     *)
(*                                                                         *)
(* Strings that the program inspects character by character are sequences *)
(* of one-character strings.  Optional values (None or a value) are        *)
(* sequences of length 0 or 1.  A similarity score is the exact rational   *)
(* num/den of the value rapidfuzz returns as a float.                      *)
(***************************************************************************)
EXTENDS Bags, FiniteSets, Integers, Sequences, TLC

(***************************************************************************)
(* Bounds of the model.                                                    *)
(***************************************************************************)
MaxItems == 2
MaxFiles == 2

(***************************************************************************)
(* Characters and string helpers (Python str semantics).                   *)
(***************************************************************************)
\* The characters with code points 32..95, 97..126 and 161..255, in code
\* order.  With the white space of ControlCodes they are the alphabet of
\* the model: ord, str.lower and str.isspace are defined on these
\* characters only, and applying them to any other character is an error.
CharsFrom32 ==
    <<" ", "!", "\"", "#", "$", "%", "&", "'", "(", ")", "*", "+", ",", "-",
      ".", "/", "0", "1", "2", "3", "4", "5", "6", "7", "8", "9", ":", ";",
      "<", "=", ">", "?", "@", "A", "B", "C", "D", "E", "F", "G", "H", "I",
      "J", "K", "L", "M", "N", "O", "P", "Q", "R", "S", "T", "U", "V", "W",
      "X", "Y", "Z", "[", "\\", "]", "^", "_">>

CharsFrom97 ==
    <<"a", "b", "c", "d", "e", "f", "g", "h", "i", "j", "k", "l", "m", "n",
      "o", "p", "q", "r", "s", "t", "u", "v", "w", "x", "y", "z", "{", "|",
      "}", "~">>

CharsFrom161 ==
    <<"¡", "¢", "£", "¤", "¥", "¦", "§", "¨", "©", "ª", "«", "¬", "­", "®",
      "¯", "°", "±", "²", "³", "´", "µ", "¶", "·", "¸", "¹", "º", "»", "¼",
      "½", "¾", "¿", "À", "Á", "Â", "Ã", "Ä", "Å", "Æ", "Ç", "È", "É", "Ê",
      "Ë", "Ì", "Í", "Î", "Ï", "Ð", "Ñ", "Ò", "Ó", "Ô", "Õ", "Ö", "×", "Ø",
      "Ù", "Ú", "Û", "Ü", "Ý", "Þ", "ß", "à", "á", "â", "ã", "ä", "å", "æ",
      "ç", "è", "é", "ê", "ë", "ì", "í", "î", "ï", "ð", "ñ", "ò", "ó", "ô",
      "õ", "ö", "÷", "ø", "ù", "ú", "û", "ü", "ý", "þ", "ÿ">>

\* The code of the k-th character of chars, which starts at code first.
CodeTable(chars, first) ==
    [c \in {chars[k] : k \in 1..Len(chars)} |->
        first - 1 + (CHOOSE k \in 1..Len(chars) : chars[k] = c)]

\* The codes of the white-space characters below 32 and of U+0085, U+00A0.
ControlCodes ==
    ("\t" :> 9) @@ ("\n" :> 10) @@ ("" :> 11) @@ ("\f" :> 12)
        @@ ("\r" :> 13) @@ ("" :> 28) @@ ("" :> 29) @@ ("" :> 30)
        @@ ("" :> 31) @@ ("" :> 133) @@ (" " :> 160)

OrdTable ==
    ControlCodes @@ CodeTable(CharsFrom32, 32) @@ CodeTable(CharsFrom97, 97)
        @@ CodeTable(CharsFrom161, 161)

\* ord(c)
Ord(c) == OrdTable[c]

\* The upper-case letters among these characters and their lower case.
UpperChars ==
    <<"A", "B", "C", "D", "E", "F", "G", "H", "I", "J", "K", "L", "M", "N",
      "O", "P", "Q", "R", "S", "T", "U", "V", "W", "X", "Y", "Z", "À", "Á",
      "Â", "Ã", "Ä", "Å", "Æ", "Ç", "È", "É", "Ê", "Ë", "Ì", "Í", "Î", "Ï",
      "Ð", "Ñ", "Ò", "Ó", "Ô", "Õ", "Ö", "Ø", "Ù", "Ú", "Û", "Ü", "Ý", "Þ">>

LowerChars ==
    <<"a", "b", "c", "d", "e", "f", "g", "h", "i", "j", "k", "l", "m", "n",
      "o", "p", "q", "r", "s", "t", "u", "v", "w", "x", "y", "z", "à", "á",
      "â", "ã", "ä", "å", "æ", "ç", "è", "é", "ê", "ë", "ì", "í", "î", "ï",
      "ð", "ñ", "ò", "ó", "ô", "õ", "ö", "ø", "ù", "ú", "û", "ü", "ý", "þ">>

\* The lower case of every character of the alphabet: a character that is
\* not an upper-case letter is its own lower case.
LowerTable ==
    [c \in DOMAIN OrdTable |->
        IF \E k \in 1..Len(UpperChars) : UpperChars[k] = c
        THEN LowerChars[CHOOSE k \in 1..Len(UpperChars) : UpperChars[k] = c]
        ELSE c]

\* str.lower() on one character of the alphabet.
LowerChar(c) == LowerTable[c]

lower(s) == [k \in 1..Len(s) |-> LowerChar(s[k])]

endswith(s, suffix) ==
    /\ Len(suffix) <= Len(s)
    /\ SubSeq(s, Len(s) - Len(suffix) + 1, Len(s)) = suffix

\* os.path.splitext(file)[0]: everything before the last dot, unless that
\* dot is preceded by dots only (a leading dot is not an extension).
splitext_root(file) ==
    LET dots == {k \in 1..Len(file) : file[k] = "."}
        d == IF dots = {} THEN 0 ELSE CHOOSE k \in dots : \A m \in dots : m <= k
    IN IF d = 0 \/ (\A k \in 1..(d - 1) : file[k] = ".")
       THEN file
       ELSE SubSeq(file, 1, d - 1)

\* Python's < on str: lexicographic by code point.
RECURSIVE StrLess(_, _)
StrLess(s, t) ==
    IF s = <<>> THEN t # <<>>
    ELSE IF t = <<>> THEN FALSE
    ELSE IF Ord(Head(s)) # Ord(Head(t)) THEN Ord(Head(s)) < Ord(Head(t))
    ELSE StrLess(Tail(s), Tail(t))

\* Truthiness of an optional string: None and "" are falsy.
Falsy(v) == v = <<>> \/ v[1] = ""

(***************************************************************************)
(* Module-level configuration (lines 26-34).                               *)
(***************************************************************************)
EnvKeys == {"SPOTIPY_CLIENT_ID", "SPOTIPY_CLIENT_SECRET", "SPOTIPY_REDIRECT_URI",
            "LOCAL_MUSIC_DIR", "SPOTIFY_PLAYLIST_ID"}

\* An environment variable is absent (<<>>), or set to "" or to a value.
EnvValues == {<<>>, <<"">>, <<"v">>}

\* os.getenv(key): None when the variable is absent.
getenv(env, key) == env[key]

\* os.getenv(key, default): the default when the variable is absent.
getenv_default(env, key, default) == IF env[key] = <<>> THEN <<default>> ELSE env[key]

\* The globals checked by ensure_config, in the order of its dict.
ConfigOrder == <<"SPOTIPY_CLIENT_ID", "SPOTIPY_CLIENT_SECRET", "SPOTIPY_REDIRECT_URI",
                 "LOCAL_MUSIC_DIR", "SPOTIFY_PLAYLIST_ID">>

\* Variant of MissingConfig that does not look at SPOTIFY_PLAYLIST_ID.
MissingConfig_skip_playlist(globals) ==
    SelectSeq(SubSeq(ConfigOrder, 1, 4), LAMBDA key : Falsy(globals[key]))

\* ensure_config, lines 41-50: the names of the globals whose value is falsy.
MissingConfig(globals) ==
    SelectSeq(ConfigOrder, LAMBDA key : Falsy(globals[key]))

(***************************************************************************)
(* Canonical keys.                                                         *)
(***************************************************************************)
Unknown == <<"U", "n", "k", "n", "o", "w", "n">>

\* f"{artist} - {title}"
FormatKey(artist, title) == artist \o <<" ", "-", " ">> \o title

(***************************************************************************)
(* STEP 1: get_spotify_tracks.  A playlist item is [track |-> None or a    *)
(* track]; a track is [name |-> str, artists |-> list of [name |-> str]].  *)
(***************************************************************************)
\* Lines 87-93: the keys one item contributes (none or one).
ItemTracks(item) ==
    IF item.track = <<>> THEN <<>>
    ELSE LET track == item.track[1]
             name == track.name
             artists == track.artists
             artist == IF artists # <<>> THEN artists[1].name ELSE Unknown
         IN IF name # <<>> THEN <<FormatKey(artist, name)>> ELSE <<>>

\* Lines 86-93: the keys of the items of one page.
RECURSIVE PageTracks(_)
PageTracks(items) ==
    IF items = <<>> THEN <<>>
    ELSE ItemTracks(Head(items)) \o PageTracks(Tail(items))

(***************************************************************************)
(* STEP 2: get_local_tracks.  A file is [name |-> str, tags |-> None when  *)
(* EasyID3 raises, or the tag dict]; a tag dict is [artist |-> None or a   *)
(* list of str, title |-> None or a list of str].                          *)
(***************************************************************************)
exts == {<<".", "m", "p", "3">>, <<".", "f", "l", "a", "c">>, <<".", "w", "a", "v">>}

\* Line 109
IsMusicFile(file) == \E e \in exts : endswith(lower(file.name), e)

\* meta.get(key, default): the default when the tag is not set.
MetaGet(tag, default) == IF tag = <<>> THEN default ELSE tag[1]

\* Lines 111-118: the entry one music file contributes.  Indexing an empty
\* tag list raises IndexError, which the except clause catches as well.
FileTrack(file) ==
    LET stem == splitext_root(file.name)
    IN IF file.tags = <<>> THEN stem
       ELSE LET meta == file.tags[1]
                artists == MetaGet(meta.artist, <<Unknown>>)
                titles == MetaGet(meta.title, <<stem>>)
            IN IF artists = <<>> \/ titles = <<>> THEN stem
               ELSE FormatKey(artists[1], titles[1])

\* Lines 105-120
RECURSIVE get_local_tracks(_)
get_local_tracks(files) ==
    IF files = <<>> THEN <<>>
    ELSE (IF IsMusicFile(Head(files)) THEN <<FileTrack(Head(files))>> ELSE <<>>)
         \o get_local_tracks(Tail(files))

(***************************************************************************)
(* STEP 3: rapidfuzz scorer and find_missing_tracks.                       *)
(***************************************************************************)
\* The characters str.isspace() accepts, up to code point 255.
WhiteSpace ==
    {" ", "\t", "\n", "\r", "\f", "", "", "", "", "", "", " "}

SpaceTable == [c \in DOMAIN OrdTable |-> c \in WhiteSpace]

\* str.isspace() on one character of the alphabet.
isspace(c) == SpaceTable[c]

\* str.split(): maximal runs of non-whitespace characters.
RECURSIVE SplitFrom(_, _, _)
SplitFrom(s, k, cur) ==
    IF k > Len(s) THEN (IF cur = <<>> THEN <<>> ELSE <<cur>>)
    ELSE IF isspace(s[k])
         THEN (IF cur = <<>> THEN <<>> ELSE <<cur>>) \o SplitFrom(s, k + 1, <<>>)
         ELSE SplitFrom(s, k + 1, Append(cur, s[k]))

split(s) == SplitFrom(s, 1, <<>>)

RECURSIVE Insert(_, _)
Insert(tok, toks) ==
    IF toks = <<>> THEN <<tok>>
    ELSE IF StrLess(Head(toks), tok) \/ Head(toks) = tok
         THEN <<Head(toks)>> \o Insert(tok, Tail(toks))
         ELSE <<tok>> \o toks

RECURSIVE sorted(_)
sorted(toks) == IF toks = <<>> THEN <<>> ELSE Insert(Head(toks), sorted(Tail(toks)))

\* " ".join(toks)
RECURSIVE join(_)
join(toks) ==
    IF toks = <<>> THEN <<>>
    ELSE IF Len(toks) = 1 THEN Head(toks)
    ELSE Head(toks) \o <<" ">> \o join(Tail(toks))

Max(a, b) == IF a >= b THEN a ELSE b

\* Length of a longest common subsequence, row by row.
RECURSIVE LcsRows(_, _, _, _)
LcsRows(s, t, k, prev) ==
    IF k > Len(s) THEN prev[Len(t)]
    ELSE LET row[j \in 0..Len(t)] ==
                 IF j = 0 THEN 0
                 ELSE IF s[k] = t[j] THEN prev[j - 1] + 1
                 ELSE Max(prev[j], row[j - 1])
         IN LcsRows(s, t, k + 1, row)

lcs_seq_similarity(s, t) == LcsRows(s, t, 1, [j \in 0..Len(t) |-> 0])

\* fuzz.ratio: 100 * (1 - indel_distance / (len1 + len2)), where
\* indel_distance = len1 + len2 - 2 * lcs; two empty strings score 100.
ratio(s, t) ==
    IF Len(s) + Len(t) = 0 THEN [num |-> 100, den |-> 1]
    ELSE [num |-> 200 * lcs_seq_similarity(s, t), den |-> Len(s) + Len(t)]

\* Variant of token_sort_ratio that compares the strings as they are.
token_sort_ratio_unsorted(s, t) == ratio(s, t)

\* fuzz.token_sort_ratio: ratio of the strings with their tokens sorted.
token_sort_ratio(s, t) == ratio(join(sorted(split(s))), join(sorted(split(t))))

\* Comparisons of scores, and of a score with an integer.
ScoreGreater(a, b) == a.num * b.den > b.num * a.den
ScoreLess(a, n) == a.num < n * a.den
ScoreEquals(a, n) == a.num = n * a.den

\* process.extractOne(query, choices, scorer=...): None for no choices,
\* otherwise the first choice with the highest score; the scan stops at a
\* score of 100.
RECURSIVE ExtractFrom(_, _, _, _)
ExtractFrom(query, choices, k, result) ==
    IF k > Len(choices) THEN result
    ELSE LET score == token_sort_ratio(query, choices[k])
             better == result = <<>> \/ ScoreGreater(score, result[1].score)
             next == IF better
                     THEN <<[choice |-> choices[k], score |-> score, index |-> k - 1]>>
                     ELSE result
         IN IF ScoreEquals(score, 100) THEN next
            ELSE ExtractFrom(query, choices, k + 1, next)

extractOne(query, choices) == ExtractFrom(query, choices, 1, <<>>)

\* Variant of IsMissing that also reports a score equal to the threshold.
IsMissing_le(sp_song, local_tracks, threshold) ==
    LET match == extractOne(sp_song, local_tracks)
    IN \/ match = <<>>
       \/ ScoreLess(match[1].score, threshold)
       \/ ScoreEquals(match[1].score, threshold)

\* Variant of IsMissing with the test negated: it reports a score at or
\* above the threshold.
IsMissing_gt(sp_song, local_tracks, threshold) ==
    LET match == extractOne(sp_song, local_tracks)
    IN match = <<>> \/ ~ScoreLess(match[1].score, threshold)

\* Line 131: not match or (match[1] or 0) < threshold
IsMissing(sp_song, local_tracks, threshold) ==
    LET match == extractOne(sp_song, local_tracks)
    IN match = <<>> \/ ScoreLess(match[1].score, threshold)

\* Variant of find_missing_tracks that reports a repeated song once.
RECURSIVE find_missing_tracks_dedup(_, _, _)
find_missing_tracks_dedup(spotify_tracks, local_tracks, threshold) ==
    IF spotify_tracks = <<>> THEN <<>>
    ELSE LET n == Len(spotify_tracks)
             sp_song == spotify_tracks[n]
             before == find_missing_tracks_dedup(SubSeq(spotify_tracks, 1, n - 1),
                                                 local_tracks, threshold)
         IN IF IsMissing(sp_song, local_tracks, threshold)
               /\ \A k \in 1..Len(before) : before[k] # sp_song
            THEN Append(before, sp_song)
            ELSE before

\* Lines 128-135
find_missing_tracks(spotify_tracks, local_tracks, threshold) ==
    SelectSeq(spotify_tracks, LAMBDA sp_song : IsMissing(sp_song, local_tracks, threshold))

(***************************************************************************)
(* Inputs.                                                                 *)
(***************************************************************************)
SeqsUpTo(S, n) == UNION {[1..m -> S] : m \in 0..n}

Artist(name) == [name |-> name]
Track(name, artists) == [track |-> <<[name |-> name, artists |-> artists]>>]

\* Playlist items: a removed track (None), a track without a name, tracks
\* with one or two artists, and a track without artists.
Items ==
    { [track |-> <<>>],
      Track(<<>>, <<Artist(<<"a">>)>>),
      Track(<<"b">>, <<Artist(<<"a">>)>>),
      Track(<<"b">>, <<>>),
      Track(<<"d">>, <<Artist(<<"c">>), Artist(<<"a">>)>>) }

\* The pages in which the Web API returns the items of a playlist: limit
\* items a page, the last page shorter, and one empty page for no items.
RECURSIVE Paginate(_, _)
Paginate(items, limit) ==
    IF Len(items) <= limit THEN <<items>>
    ELSE <<SubSeq(items, 1, limit)>> \o Paginate(SubSeq(items, limit + 1, Len(items)), limit)

PageLimits == 1..MaxItems
Playlists == {Paginate(items, limit) : items \in SeqsUpTo(Items, MaxItems),
                                       limit \in PageLimits}

Some(x) == <<x>>
None == <<>>
Tags(artist, title) == Some([artist |-> artist, title |-> title])

\* Files of the music directory, in os.walk order: two tagged files, a
\* file with no tags set, a file EasyID3 cannot read, and a file that is
\* not music.
Files ==
    { [name |-> <<"x", ".", "m", "p", "3">>,
       tags |-> Tags(Some(<< <<"a">> >>), Some(<< <<"c">> >>))],
      [name |-> <<"x", ".", "m", "p", "3">>,
       tags |-> Tags(Some(<< <<"b">> >>), Some(<< <<"a">> >>))],
      [name |-> <<"b", ".", "M", "P", "3">>, tags |-> Tags(None, None)],
      [name |-> <<"c", ".", "w", "a", "v">>, tags |-> None],
      [name |-> <<"x", ".", "t", "x", "t">>, tags |-> None] }

Directories == SeqsUpTo(Files, MaxFiles)

\* The URI of the track Spotify files under a query.
Uri(query) == <<"spotify:track:">> \o query

\* What sp.search can answer for one query: no item, or one item.
SearchResults(query) == {<<>>, <<Uri(query)>>}

\* The threshold main passes to find_missing_tracks (line 171).
MainThreshold == 80

\* Thresholds find_missing_tracks is applied to on its own.
Thresholds == {0, 50, 80, 100}

(***************************************************************************)
(* State.                                                                  *)
(***************************************************************************)
VARIABLES
    environ,            \* the process environment after load_dotenv
    isdir,              \* os.path.isdir(LOCAL_MUSIC_DIR)
    music_dir,          \* the files under LOCAL_MUSIC_DIR, in os.walk order
    globals,            \* the module globals read from the environment
    pc,                 \* the statement of main that runs next
    exit_code,          \* None while running, then the exit status
    error,              \* the error that ended the run, "" for none
    sp,                 \* whether the Spotipy client exists
    results,            \* get_spotify_tracks: the pages not yet read
    tracks,             \* get_spotify_tracks: the keys collected so far
    spotify_tracks,     \* result of get_spotify_tracks
    local_tracks,       \* result of get_local_tracks
    threshold,          \* threshold argument of find_missing_tracks
    missing_tracks,     \* result of find_missing_tracks
    calls,              \* calls made to Spotify and to the file system
    new_playlist,       \* create_missing_playlist: the created playlist
    uris,               \* create_missing_playlist: URIs found so far
    idx,                \* create_missing_playlist: next item of the loop
    returned            \* what create_missing_playlist returned

vars == <<environ, isdir, music_dir, globals, pc, exit_code, error, sp, results,
          tracks, spotify_tracks,
          local_tracks, threshold, missing_tracks, calls, new_playlist, uris,
          idx, returned>>

Call(op, arg, result) == [op |-> op, arg |-> arg, result |-> result]

\* Lines 28-34
LoadGlobals(env) ==
    [key \in EnvKeys |->
        CASE key = "SPOTIPY_CLIENT_ID" -> getenv(env, key)
          [] key = "SPOTIPY_CLIENT_SECRET" -> getenv(env, key)
          [] key = "SPOTIPY_REDIRECT_URI" -> getenv_default(env, key, "http://127.0.0.1:8888/")
          [] key = "LOCAL_MUSIC_DIR" -> getenv_default(env, key, "")
          [] key = "SPOTIFY_PLAYLIST_ID" -> getenv_default(env, key, "")]

\* The state before main runs, common to both specifications.
Loaded ==
    /\ environ \in [EnvKeys -> EnvValues]
    /\ globals = LoadGlobals(environ)
    /\ isdir \in BOOLEAN
    /\ isdir => ~Falsy(globals["LOCAL_MUSIC_DIR"])
    /\ music_dir \in IF isdir THEN Directories ELSE {<<>>}
    /\ exit_code = <<>>
    /\ error = ""
    /\ sp = FALSE
    /\ results = <<>>
    /\ tracks = <<>>
    /\ missing_tracks = <<>>
    /\ calls = <<>>
    /\ new_playlist = <<>>
    /\ uris = <<>>
    /\ idx = 0
    /\ returned = <<>>

Init ==
    /\ Loaded
    /\ pc = "ensure_config"
    /\ spotify_tracks = <<>>
    /\ local_tracks = <<>>
    /\ threshold = MainThreshold

\* sys.exit(1)
Exit(reason) ==
    /\ pc' = "exit"
    /\ exit_code' = <<1>>
    /\ error' = reason

\* ensure_config, lines 39-59
EnsureConfig ==
    /\ pc = "ensure_config"
    /\ IF MissingConfig(globals) # <<>>
       THEN Exit("Missing required configuration")
       ELSE IF ~isdir
       THEN Exit("LOCAL_MUSIC_DIR does not exist or is not a directory")
       ELSE /\ pc' = "spotify_client"
            /\ UNCHANGED <<exit_code, error>>
    /\ UNCHANGED <<results, tracks,
                   environ, isdir, music_dir, globals, sp, spotify_tracks, local_tracks,
                   threshold, missing_tracks, calls, new_playlist, uris, idx,
                   returned>>

\* spotify_client, lines 62-74: the client, or exit when authentication fails.
SpotifyClient ==
    /\ pc = "spotify_client"
    /\ \E ok \in BOOLEAN :
         IF ok
         THEN /\ sp' = TRUE
              /\ pc' = "get_spotify_tracks"
              /\ UNCHANGED <<exit_code, error>>
         ELSE /\ Exit("Failed to authenticate with Spotify")
              /\ UNCHANGED sp
    /\ UNCHANGED <<results, tracks,
                   environ, isdir, music_dir, globals, spotify_tracks, local_tracks,
                   threshold, missing_tracks, calls, new_playlist, uris, idx,
                   returned>>

\* get_spotify_tracks, lines 82-83: ask for the first page.
PlaylistItems ==
    /\ pc = "get_spotify_tracks"
    /\ \E pages \in Playlists : results' = pages
    /\ tracks' = <<>>
    /\ calls' = Append(calls, Call("playlist_items", <<>>, <<>>))
    /\ pc' = "playlist_page"
    /\ UNCHANGED <<environ, isdir, music_dir, globals, exit_code, error, sp,
                   spotify_tracks, local_tracks, threshold, missing_tracks,
                   new_playlist, uris, idx, returned>>

\* Lines 85-94: read a page that has a next page, and ask for that page.
PlaylistNext ==
    /\ pc = "playlist_page"
    /\ Len(results) > 1
    /\ tracks' = tracks \o PageTracks(Head(results))
    /\ calls' = Append(calls, Call("next", <<>>, <<>>))
    /\ results' = Tail(results)
    /\ UNCHANGED <<environ, isdir, music_dir, globals, pc, exit_code, error, sp,
                   spotify_tracks, local_tracks, threshold, missing_tracks,
                   new_playlist, uris, idx, returned>>

\* Lines 85-97: read the last page and return the keys.
PlaylistLastPage ==
    /\ pc = "playlist_page"
    /\ Len(results) = 1
    /\ tracks' = tracks \o PageTracks(Head(results))
    /\ spotify_tracks' = tracks'
    /\ results' = <<>>
    /\ pc' = "get_local_tracks"
    /\ UNCHANGED <<environ, isdir, music_dir, globals, exit_code, error, sp,
                   calls, local_tracks, threshold, missing_tracks, new_playlist,
                   uris, idx, returned>>

\* get_local_tracks, lines 103-120
GetLocalTracks ==
    /\ pc = "get_local_tracks"
    /\ local_tracks' = get_local_tracks(music_dir)
    /\ calls' = Append(calls, Call("os.walk", <<>>, <<>>))
    /\ pc' = "find_missing_tracks"
    /\ UNCHANGED <<results, tracks,
                   environ, isdir, music_dir, globals, exit_code, error, sp, spotify_tracks,
                   threshold, missing_tracks, new_playlist, uris, idx, returned>>

\* find_missing_tracks, lines 126-135
FindMissingTracks ==
    /\ pc = "find_missing_tracks"
    /\ missing_tracks' = find_missing_tracks(spotify_tracks, local_tracks, threshold)
    /\ pc' = "create_missing_playlist"
    /\ UNCHANGED <<results, tracks,
                   environ, isdir, music_dir, globals, exit_code, error, sp, spotify_tracks,
                   local_tracks, threshold, calls, new_playlist, uris, idx,
                   returned>>

\* Variant of CreateMissingPlaylist that asks for the user before the test.
CreateMissingPlaylist_me_first ==
    /\ pc = "create_missing_playlist"
    /\ calls' = Append(calls, Call("me", <<>>, <<>>))
    /\ IF missing_tracks = <<>>
       THEN /\ returned' = <<"None">>
            /\ pc' = "done"
            /\ exit_code' = <<0>>
       ELSE /\ pc' = "user_playlist_create"
            /\ UNCHANGED <<returned, exit_code>>
    /\ UNCHANGED <<results, tracks,
                   environ, isdir, music_dir, globals, error, sp, spotify_tracks,
                   local_tracks, threshold, missing_tracks, new_playlist, uris,
                   idx>>

\* create_missing_playlist, lines 143-147: return None for no missing
\* tracks, otherwise ask for the current user.
CreateMissingPlaylist ==
    /\ pc = "create_missing_playlist"
    /\ IF missing_tracks = <<>>
       THEN /\ returned' = <<"None">>
            /\ pc' = "done"
            /\ exit_code' = <<0>>
            /\ UNCHANGED calls
       ELSE /\ calls' = Append(calls, Call("me", <<>>, <<>>))
            /\ pc' = "user_playlist_create"
            /\ UNCHANGED <<returned, exit_code>>
    /\ UNCHANGED <<results, tracks,
                   environ, isdir, music_dir, globals, error, sp, spotify_tracks,
                   local_tracks, threshold, missing_tracks, new_playlist, uris,
                   idx>>

\* Lines 148-149
UserPlaylistCreate ==
    /\ pc = "user_playlist_create"
    /\ calls' = Append(calls, Call("user_playlist_create", <<>>, <<>>))
    /\ new_playlist' = <<"Missing Songs">>
    /\ uris' = <<>>
    /\ idx' = 1
    /\ pc' = "search"
    /\ UNCHANGED <<results, tracks,
                   environ, isdir, music_dir, globals, exit_code, error, sp, spotify_tracks,
                   local_tracks, threshold, missing_tracks, returned>>

\* Variant of Search that repeats a search that found nothing.
Search_retry ==
    /\ pc = "search"
    /\ idx <= Len(missing_tracks)
    /\ \E items \in SearchResults(missing_tracks[idx]) :
         /\ calls' = Append(calls, Call("search", missing_tracks[idx], items))
         /\ uris' = IF items # <<>> THEN Append(uris, items[1]) ELSE uris
         /\ idx' = IF items # <<>> \/ Len(calls) >= 2 * Len(missing_tracks) + 4
                   THEN idx + 1 ELSE idx
    /\ UNCHANGED <<results, tracks,
                   environ, isdir, music_dir, globals, pc, exit_code, error, sp,
                   spotify_tracks, local_tracks, threshold, missing_tracks,
                   new_playlist, returned>>

\* Lines 151-155: one iteration of the loop over missing_tracks.
Search ==
    /\ pc = "search"
    /\ idx <= Len(missing_tracks)
    /\ \E items \in SearchResults(missing_tracks[idx]) :
         /\ calls' = Append(calls, Call("search", missing_tracks[idx], items))
         /\ uris' = IF items # <<>> THEN Append(uris, items[1]) ELSE uris
    /\ idx' = idx + 1
    /\ UNCHANGED <<results, tracks,
                   environ, isdir, music_dir, globals, pc, exit_code, error, sp,
                   spotify_tracks, local_tracks, threshold, missing_tracks,
                   new_playlist, returned>>

\* Variant of PlaylistAddItems that does not wait for the end of the loop.
PlaylistAddItems_early ==
    /\ pc = "search"
    /\ idx > 1
    /\ calls' = IF uris # <<>>
                THEN Append(calls, Call("playlist_add_items", uris, <<>>))
                ELSE calls
    /\ returned' = new_playlist
    /\ pc' = "done"
    /\ exit_code' = <<0>>
    /\ UNCHANGED <<results, tracks,
                   environ, isdir, music_dir, globals, error, sp, spotify_tracks,
                   local_tracks, threshold, missing_tracks, new_playlist, uris,
                   idx>>

\* Lines 157-163: after the loop, add the URIs if there are any, and return
\* the playlist.
PlaylistAddItems ==
    /\ pc = "search"
    /\ idx > Len(missing_tracks)
    /\ calls' = IF uris # <<>>
                THEN Append(calls, Call("playlist_add_items", uris, <<>>))
                ELSE calls
    /\ returned' = new_playlist
    /\ pc' = "done"
    /\ exit_code' = <<0>>
    /\ UNCHANGED <<results, tracks,
                   environ, isdir, music_dir, globals, error, sp, spotify_tracks,
                   local_tracks, threshold, missing_tracks, new_playlist, uris,
                   idx>>

\* A Spotify call raises: nothing in main catches it, the run ends with a
\* traceback.
RemoteCallPending ==
    \/ pc \in {"get_spotify_tracks", "user_playlist_create"}
    \/ pc = "search" /\ (idx <= Len(missing_tracks) \/ uris # <<>>)
    \/ pc = "playlist_page" /\ Len(results) > 1
    \/ pc = "create_missing_playlist" /\ missing_tracks # <<>>

SpotifyException ==
    /\ RemoteCallPending
    /\ pc' = "crashed"
    /\ exit_code' = <<1>>
    /\ error' = "SpotifyException"
    /\ UNCHANGED <<results, tracks,
                   environ, isdir, music_dir, globals, sp, spotify_tracks, local_tracks,
                   threshold, missing_tracks, calls, new_playlist, uris, idx,
                   returned>>

Next ==
    \/ EnsureConfig
    \/ SpotifyClient
    \/ PlaylistItems
    \/ PlaylistNext
    \/ PlaylistLastPage
    \/ GetLocalTracks
    \/ FindMissingTracks
    \/ CreateMissingPlaylist
    \/ UserPlaylistCreate
    \/ Search
    \/ PlaylistAddItems
    \/ SpotifyException

Spec == Init /\ [][Next]_vars

(***************************************************************************)
(* find_missing_tracks on its own: any two lists of keys the readers can   *)
(* produce, and any threshold.                                             *)
(***************************************************************************)
RemoteKeys == {key[1] : key \in {ItemTracks(item) : item \in Items} \ {<<>>}}
LocalKeys == {FileTrack(file) : file \in {f \in Files : IsMusicFile(f)}}

InitEngine ==
    /\ Loaded
    /\ MissingConfig(globals) = <<>>
    /\ isdir
    /\ environ["SPOTIPY_REDIRECT_URI"] = <<>>
    /\ music_dir = <<>>
    /\ pc = "find_missing_tracks"
    /\ spotify_tracks \in SeqsUpTo(RemoteKeys, MaxItems)
    /\ local_tracks \in SeqsUpTo(LocalKeys, MaxFiles)
    /\ threshold \in Thresholds

NextEngine == FindMissingTracks

SpecEngine == InitEngine /\ [][NextEngine]_vars

(***************************************************************************)
(* Properties of find_missing_tracks, checked under SpecEngine.            *)
(***************************************************************************)
Range(seq) == {seq[k] : k \in 1..Len(seq)}

Compared == pc = "create_missing_playlist"

\* sub can be obtained from seq by deleting entries.
RECURSIVE IsSubseq(_, _)
IsSubseq(sub, seq) ==
    IF sub = <<>> THEN TRUE
    ELSE IF seq = <<>> THEN FALSE
    ELSE IF Head(sub) = Head(seq) THEN IsSubseq(Tail(sub), Tail(seq))
    ELSE IsSubseq(sub, Tail(seq))

Count(x, seq) == Cardinality({k \in 1..Len(seq) : seq[k] = x})

\* Every local key scores strictly below t against q.
AllScoresBelow(q, local, t) ==
    \A k \in 1..Len(local) : ScoreLess(token_sort_ratio(q, local[k]), t)

\* Some local key scores exactly t against q, and none scores higher.
MaxScoreIs(q, local, t) ==
    /\ \E k \in 1..Len(local) : ScoreEquals(token_sort_ratio(q, local[k]), t)
    /\ AllScoresBelow(q, local, t + 1)

\* C1: a remote key is reported missing if and only if the local list is
\* empty or every local key (hence the best one) scores strictly below the
\* threshold; a best score equal to the threshold is a match.
C1_MissingIffBelowThreshold ==
    Compared =>
        missing_tracks =
            SelectSeq(spotify_tracks,
                      LAMBDA q : local_tracks = <<>>
                                 \/ AllScoresBelow(q, local_tracks, threshold))

\* A comparison in which one remote key is matched with a best score equal
\* to the threshold and another remote key is missing.
C1_Witness ==
    /\ Compared
    /\ threshold > 0
    /\ \E q \in Range(spotify_tracks) :
         MaxScoreIs(q, local_tracks, threshold) /\ q \notin Range(missing_tracks)
    /\ missing_tracks # <<>>

\* C2 as stated: one result per remote entry.
C2_OneResultPerRemoteEntry ==
    Compared => Len(missing_tracks) = Len(spotify_tracks)

\* C2 amended: the result holds the missing entries only; it is never
\* longer than the remote list, it keeps the remote order, and a remote key
\* that is missing occurs as often as it does in the remote list.
C2_MissingIsOrderedSublist ==
    Compared =>
        /\ Len(missing_tracks) <= Len(spotify_tracks)
        /\ IsSubseq(missing_tracks, spotify_tracks)
        /\ \A q \in Range(spotify_tracks) :
             Count(q, missing_tracks) \in {0, Count(q, spotify_tracks)}

\* A comparison of two remote entries that drops the first, which is
\* matched, and keeps the second, which is missing.
C2_Witness ==
    /\ Compared
    /\ Len(spotify_tracks) = 2
    /\ missing_tracks = <<spotify_tracks[2]>>
    /\ spotify_tracks[1] # spotify_tracks[2]

\* The bag of the tokens of a key.
RECURSIVE BagOf(_)
BagOf(toks) ==
    IF toks = <<>> THEN EmptyBag
    ELSE SetToBag({Head(toks)}) (+) BagOf(Tail(toks))

SameTokens(s, t) == BagOf(split(s)) = BagOf(split(t))

\* C3: a remote key with the same token multiset as some local key scores
\* 100 and is not reported missing, for every threshold up to 100, whatever
\* else the local list holds and wherever the equal key stands.
C3_EqualTokensMatch ==
    \A k \in 1..Len(spotify_tracks) :
        (\E m \in 1..Len(local_tracks) : SameTokens(spotify_tracks[k], local_tracks[m]))
        => /\ ScoreEquals(extractOne(spotify_tracks[k], local_tracks)[1].score, 100)
           /\ Compared => spotify_tracks[k] \notin Range(missing_tracks)

\* A comparison at threshold 100 in which the only local key with the
\* tokens of a remote key is the last one and lists them in another order.
C3_Witness ==
    /\ Compared
    /\ threshold = 100
    /\ Len(local_tracks) > 1
    /\ \E q \in Range(spotify_tracks) :
         /\ SameTokens(q, local_tracks[Len(local_tracks)])
         /\ q \notin Range(local_tracks)
         /\ q \notin Range(missing_tracks)

\* C4: the tracks missing at a threshold are missing at every higher
\* threshold, in the same order.
C4_ThresholdMonotone ==
    Compared =>
        \A t \in {u \in Thresholds : u > threshold} :
            IsSubseq(missing_tracks,
                     find_missing_tracks(spotify_tracks, local_tracks, t))

\* A comparison with a missing track, where a higher threshold reports a
\* track missing that this one matches.
C4_Witness ==
    /\ Compared
    /\ missing_tracks # <<>>
    /\ \E t \in Thresholds :
         /\ t > threshold
         /\ Len(find_missing_tracks(spotify_tracks, local_tracks, t)) > Len(missing_tracks)

(***************************************************************************)
(* Properties of the run of main, checked under Spec.                      *)
(***************************************************************************)
\* The positions of the calls of one operation in the call log.
CallsOf(op) == {k \in 1..Len(calls) : calls[k].op = op}

SearchCalls == SelectSeq(calls, LAMBDA c : c.op = "search")

\* The queries of the searches made so far, in order.
SearchQueries == [k \in 1..Len(SearchCalls) |-> SearchCalls[k].arg]

\* The URIs the searches made so far have found, in order.
RECURSIVE Found(_)
Found(searches) ==
    IF searches = <<>> THEN <<>>
    ELSE Head(searches).result \o Found(Tail(searches))

\* C5 as stated: the playlist is created only after every lookup.
C5_CreateAfterAllLookups ==
    \A k \in CallsOf("user_playlist_create") :
        Cardinality({m \in CallsOf("search") : m < k}) = Len(missing_tracks)

\* C5 amended: with missing tracks, the playlist is created once and before
\* the first lookup; the items are added at most once, as the last call,
\* after one lookup per missing track, and they are the URIs the lookups
\* found, in order; nothing is added when no lookup found a URI.
C5_CreateOnceThenLookupsThenAdd ==
    /\ Cardinality(CallsOf("user_playlist_create")) <= 1
    /\ \A k \in CallsOf("search") :
         \E c \in CallsOf("user_playlist_create") : c < k
    /\ pc \in {"search", "done"} /\ missing_tracks # <<>>
         => Cardinality(CallsOf("user_playlist_create")) = 1
    /\ Cardinality(CallsOf("playlist_add_items")) <= 1
    /\ \A k \in CallsOf("playlist_add_items") :
         /\ k = Len(calls)
         /\ Len(SearchCalls) = Len(missing_tracks)
         /\ calls[k].arg = Found(SearchCalls)
         /\ calls[k].arg # <<>>
    /\ pc = "done" /\ Found(SearchCalls) # <<>>
         => CallsOf("playlist_add_items") # {}

\* A finished run that created the playlist, then made two lookups, the
\* first without result, and then added the URI the second one found.
C5_Witness ==
    /\ pc = "done"
    /\ Len(calls) >= 5
    /\ calls[Len(calls) - 3].op = "user_playlist_create"
    /\ calls[Len(calls) - 2] = Call("search", missing_tracks[1], <<>>)
    /\ calls[Len(calls) - 1] = Call("search", missing_tracks[2], <<Uri(missing_tracks[2])>>)
    /\ calls[Len(calls)] = Call("playlist_add_items", <<Uri(missing_tracks[2])>>, <<>>)

CreateCallOps == {"me", "user_playlist_create", "search", "playlist_add_items"}

\* C6: with no missing track, create_missing_playlist returns None, makes
\* no call to Spotify, and the run ends normally.
C6_NoMissingNoCalls ==
    missing_tracks = <<>> =>
        /\ \A k \in 1..Len(calls) : calls[k].op \notin CreateCallOps
        /\ pc \in {"user_playlist_create", "search"} => FALSE
        /\ pc = "done" =>
             /\ returned = <<"None">>
             /\ new_playlist = <<>>
             /\ exit_code = <<0>>
             /\ error = ""

\* A finished run in which every track of a non-empty playlist was matched.
C6_Witness ==
    /\ pc = "done"
    /\ spotify_tracks # <<>>
    /\ missing_tracks = <<>>
    /\ returned = <<"None">>

\* C7 as stated: one recorded outcome per missing track.
C7_OneOutcomePerMissing ==
    pc = "done" /\ missing_tracks # <<>> => Len(uris) = Len(missing_tracks)

\* C7 amended: the lookups are made once per missing track, in order and
\* without retry, and only the URIs found are recorded, in order: a lookup
\* that finds nothing leaves no entry.
C7_LookupOncePerMissingKeepFound ==
    /\ Len(SearchQueries) <= Len(missing_tracks)
    /\ SearchQueries = SubSeq(missing_tracks, 1, Len(SearchQueries))
    /\ pc = "search" => Len(SearchQueries) = idx - 1
    /\ pc = "done" => Len(SearchQueries) = Len(missing_tracks)
    /\ uris = Found(SearchCalls)
    /\ Len(uris) = Cardinality({k \in 1..Len(SearchCalls) : SearchCalls[k].result # <<>>})

\* A finished run with two lookups, the first without result: the URI of
\* the second is the only entry recorded.
C7_Witness ==
    /\ pc = "done"
    /\ Len(missing_tracks) = 2
    /\ SearchCalls[1].result = <<>>
    /\ SearchCalls[2].result # <<>>
    /\ uris = SearchCalls[2].result

MusicFiles == SelectSeq(music_dir, IsMusicFile)

Scanned == pc \in {"find_missing_tracks", "create_missing_playlist",
                   "user_playlist_create", "search", "done", "crashed"}
           /\ CallsOf("os.walk") # {}

\* The run has ended: main returned, sys.exit was called or a traceback
\* was printed.
Ended == pc \in {"done", "exit", "crashed"}

\* C8: every music file yields one local entry, an unreadable one its file
\* name without extension; once the lookups have begun, the run ends only
\* after a lookup was made for every missing track, and a finished run has
\* written the URIs found.  sp.search (line 152) is called outside any try
\* block: when it raises, the run ends with the lookups made so far, the
\* remaining ones and playlist_add_items never happen.
C8_ItemFailuresDoNotAbort ==
    /\ Scanned =>
         /\ Len(local_tracks) = Len(MusicFiles)
         /\ \A k \in 1..Len(MusicFiles) :
              MusicFiles[k].tags = <<>>
              => local_tracks[k] = splitext_root(MusicFiles[k].name)
    /\ Ended /\ new_playlist # <<>> => Len(SearchCalls) = Len(missing_tracks)
    /\ pc = "done" /\ Found(SearchCalls) # <<>> =>
         calls[Len(calls)] = Call("playlist_add_items", Found(SearchCalls), <<>>)

\* key reads "<artist> - <title>" with a non-empty artist and title.
HasCanonicalForm(key) ==
    \E k \in 2..(Len(key) - 3) : SubSeq(key, k, k + 2) = <<" ", "-", " ">>

\* C9: every key of the remote and of the local list reads
\* "<artist> - <title>" with a non-empty title.
C9_KeysAreCanonical ==
    /\ \A k \in 1..Len(spotify_tracks) : HasCanonicalForm(spotify_tracks[k])
    /\ \A k \in 1..Len(local_tracks) : HasCanonicalForm(local_tracks[k])

NothingRan ==
    /\ pc \in {"ensure_config", "exit"}
    /\ pc = "exit" => exit_code = <<1>>
    /\ sp = FALSE
    /\ calls = <<>>
    /\ results = <<>>
    /\ spotify_tracks = <<>>
    /\ local_tracks = <<>>
    /\ missing_tracks = <<>>
    /\ new_playlist = <<>>

Unset(value) == value = <<>> \/ value = <<"">>

\* C10 as stated: any of the five settings absent or empty, or a local
\* root that is no directory, ends the run before any step.
C10_AnyUnsetSettingExits ==
    (\/ \E key \in EnvKeys : Unset(environ[key])
     \/ ~isdir)
    => NothingRan

\* C10 amended: an absent redirect URI is replaced by the default and
\* accepted; the run ends with status 1 before any step if the client id,
\* the client secret, the local directory or the playlist id is absent or
\* empty, if the redirect URI is set to the empty string, or if the local
\* root is no directory.
C10_UnsetSettingExits ==
    (\/ \E key \in EnvKeys \ {"SPOTIPY_REDIRECT_URI"} : Unset(environ[key])
     \/ environ["SPOTIPY_REDIRECT_URI"] = <<"">>
     \/ ~isdir)
    => NothingRan

\* A run ended by ensure_config because only the playlist id is not set.
C10_Witness ==
    /\ pc = "exit"
    /\ exit_code = <<1>>
    /\ \A key \in EnvKeys \ {"SPOTIFY_PLAYLIST_ID"} : environ[key] = <<"v">>
    /\ Unset(environ["SPOTIFY_PLAYLIST_ID"])
    /\ isdir
    /\ calls = <<>>

====
